---------------------------- MODULE Spec2Model ----------------------------
(***************************************************************************)
(* Greenhouse IoT simulation: the environment generator                    *)
(* (services/data_generator.py), the rule-based controller                 *)
(* (services/decision.py), the closed loop of generate_training_data and   *)
(* the threaded SimulationRunner (services/simulation_runner.py).          *)
(*                                                                         *)
(* Numbers.  The program computes on floats.  Here every metric value is   *)
(* an integer count of hundredths of the metric's unit (20.0 C is 2000,    *)
(* 0.5 C is 50, 100000 lux is 10000000), so every threshold, buffer and    *)
(* literal offset of the source is represented exactly; products with the  *)
(* convergence rates and the noise percentages are rounded down to a       *)
(* hundredth.                                                              *)
(***************************************************************************)
EXTENDS Integers, Sequences, FiniteSets, TLC

VARIABLES
    registry,         \* EquipmentState table: equipment_type -> is_active
    reading,          \* the last GreenhouseReading produced / handed to decide
    equipment_state,  \* decide's snapshot of the registry (decision.py:43)
    command,          \* the Command last returned by a controller
    pc,               \* position of the single-threaded loop
    heater_latched,   \* history: heater went ON below TEMP_MIN and no reading
                      \* above TEMP_MIN+TEMP_BUFFER has been seen since
    config_name,      \* GreenhouseDataGenerator.config_name
    tick,             \* GreenhouseDataGenerator.tick
    current_weather,  \* GreenhouseDataGenerator.current_weather
    current,          \* the five GreenhouseDataGenerator.current_* values
    last_targets,     \* GreenhouseDataGenerator.last_targets
    is_running,       \* SimulationRunner.is_running
    stop_event,       \* SimulationRunner._stop_event is set
    thread,           \* SimulationRunner._thread: a loop thread id, 0 for None
    runner_tick,      \* SimulationRunner.tick
    last10,           \* SimulationRunner.last10: ticks of the readings held
    cached_pred,      \* SimulationRunner._cached_pred: where it was computed
    loops,            \* the loop threads created by start()
    requests,         \* the request threads calling start() and stop()
    calls,            \* start()/stop() calls begun so far
    failures,         \* ticks that have raised so far
    runs              \* start() bodies executed so far

loopVars == <<registry, reading, equipment_state, command, pc, heater_latched>>
genVars == <<config_name, tick, current_weather, current, last_targets>>
runnerVars == <<is_running, stop_event, thread, runner_tick, last10, cached_pred,
                loops, requests, calls, failures, runs>>
vars == <<loopVars, genVars, runnerVars>>

-----------------------------------------------------------------------------
(* Data model                                                              *)

EQUIPMENT_FIELDS ==
    {"heater", "ventilation", "irrigation", "co2_injector",
     "lights", "dehumidifier", "light_blinds"}

METRICS ==
    {"temperature", "humidity", "soil_moisture", "light_intensity",
     "co2_concentration"}

\* "Not set yet" for the record-valued variables and for the names.
NoValue == [none |-> TRUE]
NoName == "none"

\* Every fully populated registry (the 'random' starting configuration can
\* produce each of them).
AllRegistries == [EQUIPMENT_FIELDS -> BOOLEAN]

AllOff == [e \in EQUIPMENT_FIELDS |-> FALSE]

-----------------------------------------------------------------------------
(* GreenhouseThresholds (hundredths)                                       *)

TEMP_MIN == 2000
TEMP_MAX == 2500
TEMP_BUFFER == 150
HUM_MIN == 5000
HUM_MAX == 8000
HUM_BUFFER == 500
SOIL_MIN == 4000
SOIL_BUFFER == 500
CO2_MIN == 45000
CO2_BUFFER == 5000
LIGHT_MIN_GROWTH == 500000
LIGHT_MAX_STRESS == 5000000

\* Literal offsets used inside decide.
LIGHTS_TEMP_MARGIN == 50       \* TEMP_MAX - 0.5
VENT_TEMP_SLACK == 50          \* TEMP_MIN + 0.5
IRRIGATION_HUM_MARGIN == 200   \* HUM_MAX - 2.0
DANGER_HUM_MARGIN == 500       \* HUM_MAX + 5.0

-----------------------------------------------------------------------------
(* GreenhouseDecisionModel.decide (services/decision.py)                   *)

\* decision.py:48-49: is_on reads the snapshot, a missing row counts as OFF.
is_on(es, name) == IF name \in DOMAIN es THEN es[name] ELSE FALSE

\* decision.py:52-60: start from "keep current state".
InitialCommand(es) == [e \in EQUIPMENT_FIELDS |-> is_on(es, e)]

\* Mutant of HeaterRule: no hysteresis band, the heater follows TEMP_MIN only.
HeaterRuleNoHysteresis(p, es) == p.temperature < TEMP_MIN

\* Mutant of HeaterRule: a heater that is ON is kept only inside the band
\* from TEMP_MIN up; the test below TEMP_MIN starts a heater that is OFF.
HeaterRuleBandOnly(p, es) ==
    IF is_on(es, "heater")
    THEN p.temperature >= TEMP_MIN /\ p.temperature <= TEMP_MIN + TEMP_BUFFER
    ELSE p.temperature < TEMP_MIN

\* decision.py:66-71: heater hysteresis.
HeaterRule(p, es) ==
    IF p.temperature < TEMP_MIN THEN TRUE
    ELSE IF is_on(es, "heater")
         THEN p.temperature <= TEMP_MIN + TEMP_BUFFER
         ELSE FALSE

\* Mutant of VentilationRule: no hysteresis band, ventilation follows
\* TEMP_MAX only.
VentilationRuleNoHysteresis(p, es) == p.temperature > TEMP_MAX

\* decision.py:74-79: ventilation hysteresis.
VentilationRule(p, es) ==
    IF p.temperature > TEMP_MAX THEN TRUE
    ELSE IF is_on(es, "ventilation")
         THEN p.temperature >= TEMP_MAX - TEMP_BUFFER
         ELSE FALSE

\* decision.py:83-87: heater/ventilation conflict of the temperature stage.
TemperatureConflict(p, cmd) ==
    IF cmd.heater /\ cmd.ventilation
    THEN IF p.temperature > TEMP_MAX
         THEN [cmd EXCEPT !.heater = FALSE]
         ELSE [cmd EXCEPT !.ventilation = FALSE]
    ELSE cmd

\* decision.py:66-87: stage 1.
TemperatureStage(p, es, cmd) ==
    TemperatureConflict(p,
        [cmd EXCEPT !.heater = HeaterRule(p, es),
                    !.ventilation = VentilationRule(p, es)])

\* Mutant of LightStage: in the optimal band lights and blinds are switched
\* OFF instead of held.
LightStageBandOff(p, es, cmd) ==
    IF p.light_intensity > LIGHT_MAX_STRESS
    THEN [cmd EXCEPT !.light_blinds = TRUE, !.lights = FALSE]
    ELSE IF p.light_intensity < LIGHT_MIN_GROWTH
         THEN [cmd EXCEPT !.light_blinds = FALSE,
                          !.lights = ~(p.temperature >= TEMP_MAX - LIGHTS_TEMP_MARGIN)]
         ELSE [cmd EXCEPT !.lights = FALSE, !.light_blinds = FALSE]

\* Mutant of LightStage: too dark always switches the lights ON, whatever
\* the temperature.
LightStageLightsAlways(p, es, cmd) ==
    IF p.light_intensity > LIGHT_MAX_STRESS
    THEN [cmd EXCEPT !.light_blinds = TRUE, !.lights = FALSE]
    ELSE IF p.light_intensity < LIGHT_MIN_GROWTH
         THEN [cmd EXCEPT !.light_blinds = FALSE, !.lights = TRUE]
         ELSE [cmd EXCEPT !.lights = is_on(es, "lights"),
                          !.light_blinds = is_on(es, "light_blinds")]

\* Mutant of LightStage: in the optimal band each of lights and blinds is
\* given the other's registry state.
LightStageSwapped(p, es, cmd) ==
    IF p.light_intensity > LIGHT_MAX_STRESS
    THEN [cmd EXCEPT !.light_blinds = TRUE, !.lights = FALSE]
    ELSE IF p.light_intensity < LIGHT_MIN_GROWTH
         THEN [cmd EXCEPT !.light_blinds = FALSE,
                          !.lights = ~(p.temperature >= TEMP_MAX - LIGHTS_TEMP_MARGIN)]
         ELSE [cmd EXCEPT !.lights = is_on(es, "light_blinds"),
                          !.light_blinds = is_on(es, "lights")]

\* Mutant of LightStage: too bright closes the blinds but leaves the lights
\* as they are.
LightStageBrightKeepsLights(p, es, cmd) ==
    IF p.light_intensity > LIGHT_MAX_STRESS
    THEN [cmd EXCEPT !.light_blinds = TRUE]
    ELSE IF p.light_intensity < LIGHT_MIN_GROWTH
         THEN [cmd EXCEPT !.light_blinds = FALSE,
                          !.lights = ~(p.temperature >= TEMP_MAX - LIGHTS_TEMP_MARGIN)]
         ELSE [cmd EXCEPT !.lights = is_on(es, "lights"),
                          !.light_blinds = is_on(es, "light_blinds")]

\* decision.py:93-109: stage 2.
LightStage(p, es, cmd) ==
    IF p.light_intensity > LIGHT_MAX_STRESS
    THEN [cmd EXCEPT !.light_blinds = TRUE, !.lights = FALSE]
    ELSE IF p.light_intensity < LIGHT_MIN_GROWTH
         THEN [cmd EXCEPT !.light_blinds = FALSE,
                          !.lights = ~(p.temperature >= TEMP_MAX - LIGHTS_TEMP_MARGIN)]
         ELSE [cmd EXCEPT !.lights = is_on(es, "lights"),
                          !.light_blinds = is_on(es, "light_blinds")]

\* Mutant of HumidityStage: no hysteresis band, the dehumidifier is OFF as
\* soon as humidity is not above HUM_MAX.
HumidityStageNoHysteresis(p, es, cmd) ==
    IF p.humidity > HUM_MAX
    THEN IF p.temperature > TEMP_MIN + VENT_TEMP_SLACK
         THEN [cmd EXCEPT !.ventilation = TRUE, !.dehumidifier = FALSE]
         ELSE [cmd EXCEPT !.dehumidifier = TRUE]
    ELSE [cmd EXCEPT !.dehumidifier = FALSE]

\* Mutant of HumidityStage: above HUM_MAX the dehumidifier is preferred,
\* whatever the temperature.
HumidityStageDehumidifierFirst(p, es, cmd) ==
    IF p.humidity > HUM_MAX
    THEN [cmd EXCEPT !.dehumidifier = TRUE]
    ELSE IF p.humidity < HUM_MIN
         THEN [cmd EXCEPT !.dehumidifier = FALSE]
         ELSE IF is_on(es, "dehumidifier")
              THEN [cmd EXCEPT !.dehumidifier = p.humidity >= HUM_MAX - HUM_BUFFER]
              ELSE [cmd EXCEPT !.dehumidifier = FALSE]

\* Mutant of HumidityStage: above HUM_MAX ventilation is preferred, whatever
\* the temperature.
HumidityStageVentilationAlways(p, es, cmd) ==
    IF p.humidity > HUM_MAX
    THEN [cmd EXCEPT !.ventilation = TRUE, !.dehumidifier = FALSE]
    ELSE IF p.humidity < HUM_MIN
         THEN [cmd EXCEPT !.dehumidifier = FALSE]
         ELSE IF is_on(es, "dehumidifier")
              THEN [cmd EXCEPT !.dehumidifier = p.humidity >= HUM_MAX - HUM_BUFFER]
              ELSE [cmd EXCEPT !.dehumidifier = FALSE]

\* decision.py:117-133: stage 3.
HumidityStage(p, es, cmd) ==
    IF p.humidity > HUM_MAX
    THEN IF p.temperature > TEMP_MIN + VENT_TEMP_SLACK
         THEN [cmd EXCEPT !.ventilation = TRUE, !.dehumidifier = FALSE]
         ELSE [cmd EXCEPT !.dehumidifier = TRUE]
    ELSE IF p.humidity < HUM_MIN
         THEN [cmd EXCEPT !.dehumidifier = FALSE]
         ELSE IF is_on(es, "dehumidifier")
              THEN [cmd EXCEPT !.dehumidifier = p.humidity >= HUM_MAX - HUM_BUFFER]
              ELSE [cmd EXCEPT !.dehumidifier = FALSE]

\* Mutant of SoilStage: irrigation is only ever continued, never started.
SoilStageNoStart(p, es, cmd) ==
    IF is_on(es, "irrigation")
    THEN [cmd EXCEPT !.irrigation = p.soil_moisture <= SOIL_MIN + SOIL_BUFFER]
    ELSE [cmd EXCEPT !.irrigation = FALSE]

\* Mutant of SoilStage: no hysteresis band, irrigation runs only below
\* SOIL_MIN.
SoilStageNoHysteresis(p, es, cmd) ==
    IF p.soil_moisture < SOIL_MIN
    THEN [cmd EXCEPT !.irrigation = ~(p.humidity > HUM_MAX - IRRIGATION_HUM_MARGIN)]
    ELSE [cmd EXCEPT !.irrigation = FALSE]

\* Mutant of SoilStage: dry soil is irrigated whatever the humidity.
SoilStageIgnoringHumidity(p, es, cmd) ==
    IF p.soil_moisture < SOIL_MIN
    THEN [cmd EXCEPT !.irrigation = TRUE]
    ELSE IF is_on(es, "irrigation")
         THEN [cmd EXCEPT !.irrigation = p.soil_moisture <= SOIL_MIN + SOIL_BUFFER]
         ELSE [cmd EXCEPT !.irrigation = FALSE]

\* decision.py:139-149: stage 4.
SoilStage(p, es, cmd) ==
    IF p.soil_moisture < SOIL_MIN
    THEN [cmd EXCEPT !.irrigation = ~(p.humidity > HUM_MAX - IRRIGATION_HUM_MARGIN)]
    ELSE IF is_on(es, "irrigation")
         THEN [cmd EXCEPT !.irrigation = p.soil_moisture <= SOIL_MIN + SOIL_BUFFER]
         ELSE [cmd EXCEPT !.irrigation = FALSE]

\* Mutant of CO2Stage: the injector hysteresis without the ventilation check.
CO2StageIgnoringVentilation(p, es, cmd) ==
    IF p.co2_concentration < CO2_MIN
    THEN [cmd EXCEPT !.co2_injector = TRUE]
    ELSE IF is_on(es, "co2_injector")
         THEN [cmd EXCEPT !.co2_injector =
                              p.co2_concentration <= CO2_MIN + CO2_BUFFER]
         ELSE [cmd EXCEPT !.co2_injector = FALSE]

\* Mutant of CO2Stage: under ventilation the injector keeps its current state.
CO2StageKeepUnderVentilation(p, es, cmd) ==
    IF cmd.ventilation
    THEN cmd
    ELSE CO2StageIgnoringVentilation(p, es, cmd)

\* Mutant of CO2Stage: the ventilation check reads the registry instead of
\* the Command being built.
CO2StageRegistryVentilation(p, es, cmd) ==
    IF is_on(es, "ventilation")
    THEN [cmd EXCEPT !.co2_injector = FALSE]
    ELSE CO2StageIgnoringVentilation(p, es, cmd)

\* decision.py:155-164: stage 5.
CO2Stage(p, es, cmd) ==
    IF cmd.ventilation
    THEN [cmd EXCEPT !.co2_injector = FALSE]
    ELSE IF p.co2_concentration < CO2_MIN
         THEN [cmd EXCEPT !.co2_injector = TRUE]
         ELSE IF is_on(es, "co2_injector")
              THEN [cmd EXCEPT !.co2_injector =
                                   p.co2_concentration <= CO2_MIN + CO2_BUFFER]
              ELSE [cmd EXCEPT !.co2_injector = FALSE]

\* Mutant of FinalVentilationPass: only the lights are forced OFF.
FinalVentilationPassLightsOnly(p, cmd) ==
    IF cmd.ventilation /\ p.temperature >= TEMP_MAX
    THEN [cmd EXCEPT !.lights = FALSE]
    ELSE cmd

\* decision.py:170-173: final pass, ventilating at or above TEMP_MAX.
FinalVentilationPass(p, cmd) ==
    IF cmd.ventilation /\ p.temperature >= TEMP_MAX
    THEN [cmd EXCEPT !.lights = FALSE, !.dehumidifier = FALSE]
    ELSE cmd

\* Mutant of FinalHeaterPass: when humidity is dangerously high the final
\* pass gives up heating instead of keeping both.
FinalHeaterPassDropsHeater(p, cmd) ==
    IF cmd.heater /\ p.temperature <= TEMP_MIN
    THEN IF p.humidity <= HUM_MAX + DANGER_HUM_MARGIN
         THEN [cmd EXCEPT !.ventilation = FALSE]
         ELSE [cmd EXCEPT !.heater = FALSE]
    ELSE cmd

\* decision.py:176-178: final pass, heating at or below TEMP_MIN.
FinalHeaterPass(p, cmd) ==
    IF cmd.heater /\ p.temperature <= TEMP_MIN
         /\ p.humidity <= HUM_MAX + DANGER_HUM_MARGIN
    THEN [cmd EXCEPT !.ventilation = FALSE]
    ELSE cmd

\* decision.py:41-180: the Command decide returns for prediction p when the
\* EquipmentState table holds es.
Decide(p, es) ==
    FinalHeaterPass(p,
      FinalVentilationPass(p,
        CO2Stage(p, es,
          SoilStage(p, es,
            HumidityStage(p, es,
              LightStage(p, es,
                TemperatureStage(p, es, InitialCommand(es))))))))

\* Mutant of RegistryAfterDecide: decide saves its Command into the table.
RegistryAfterDecideSaved(p, es) == Decide(p, es)

\* decision.py:41-180: the EquipmentState table after decide has returned;
\* decide only reads the table (line 44) and builds an unsaved Command.
RegistryAfterDecide(p, es) == es

\* Mutant of apply_command_to_equipment_state: the Command is applied as a
\* delta that only switches equipment ON.
apply_command_as_delta(reg, cmd) ==
    [e \in (DOMAIN reg) \cup EQUIPMENT_FIELDS |->
        IF e \in EQUIPMENT_FIELDS
        THEN (IF e \in DOMAIN cmd /\ cmd[e] THEN TRUE ELSE is_on(reg, e))
        ELSE reg[e]]

\* generate_training_data.py:18-24: apply_command_to_equipment_state.
apply_command_to_equipment_state(reg, cmd) ==
    [e \in (DOMAIN reg) \cup EQUIPMENT_FIELDS |->
        IF e \in EQUIPMENT_FIELDS
        THEN (IF e \in DOMAIN cmd THEN cmd[e] ELSE FALSE)
        ELSE reg[e]]

-----------------------------------------------------------------------------
(* The controller in the closed loop, driven by any sequence of readings   *)
(* (generate_training_data.py:100-105 with the reading left open).         *)

\* Representative metric values: for each comparison of decide, the
\* threshold itself and a value on each side of it.
TempValues == {1990, 2000, 2050, 2060, 2150, 2200, 2350, 2450, 2500, 2510}
HumValues == {4900, 5000, 7400, 7500, 7800, 7900, 8000, 8100, 8500, 8600}
SoilValues == {3900, 4000, 4500, 4600}
LightValues == {499900, 500000, 5000000, 5000100}
CO2Values == {44900, 45000, 50000, 50100}

Readings ==
    [temperature : TempValues, humidity : HumValues,
     soil_moisture : SoilValues, light_intensity : LightValues,
     co2_concentration : CO2Values]

\* float('inf') in hundredths: above every threshold and every bound; its
\* negation is float('-inf').  decide only compares the metrics.
Infinity == 1000000000

\* Readings with a malformed metric: an infinite temperature or humidity
\* beside in-range values (GreenhouseReading's fields are FloatFields).
MalformedReadings ==
    {[temperature |-> t, humidity |-> 7500, soil_moisture |-> 4500,
      light_intensity |-> 500000, co2_concentration |-> 50000] :
        t \in {Infinity, 0 - Infinity}}
    \cup
    {[temperature |-> 2200, humidity |-> h, soil_moisture |-> 4500,
      light_intensity |-> 500000, co2_concentration |-> 50000] :
        h \in {Infinity, 0 - Infinity}}

LatchAfter(latched, p, cmd) ==
    IF p.temperature > TEMP_MIN + TEMP_BUFFER THEN FALSE
    ELSE IF p.temperature < TEMP_MIN /\ cmd.heater THEN TRUE
    ELSE latched

\* The runner is not part of this specification.
RunnerIdle ==
    /\ is_running = FALSE
    /\ stop_event = FALSE
    /\ thread = 0
    /\ runner_tick = 0
    /\ last10 = <<>>
    /\ cached_pred = NoValue
    /\ loops = <<>>
    /\ requests = <<>>
    /\ calls = 0
    /\ failures = 0
    /\ runs = 0

\* The generator is not part of this specification.
GeneratorIdle ==
    /\ config_name = NoName
    /\ tick = 0
    /\ current_weather = NoName
    /\ current = NoValue
    /\ last_targets = NoValue

InitLoop ==
    /\ GeneratorIdle
    /\ RunnerIdle
    /\ registry \in AllRegistries
    /\ reading = NoValue
    /\ equipment_state = NoValue
    /\ command = NoValue
    /\ pc = "decide"
    /\ heater_latched = FALSE

\* generate_training_data.py:102: command = decision_model.decide(reading).
DecideStep(p) ==
    /\ pc = "decide"
    /\ reading' = p
    /\ equipment_state' = registry
    /\ command' = Decide(p, registry)
    /\ registry' = RegistryAfterDecide(p, registry)
    /\ heater_latched' = LatchAfter(heater_latched, p, command')
    /\ pc' = "apply"
    /\ UNCHANGED <<genVars, runnerVars>>

\* generate_training_data.py:105: apply_command_to_equipment_state(command).
ApplyStep ==
    /\ pc = "apply"
    /\ registry' = apply_command_to_equipment_state(registry, command)
    /\ pc' = "decide"
    \* the iteration's locals are dead once the Command is applied
    /\ reading' = NoValue
    /\ equipment_state' = NoValue
    /\ command' = NoValue
    /\ UNCHANGED <<heater_latched, genVars, runnerVars>>

\* One iteration's decide, on any reading.
DecideAny ==
    /\ pc = "decide"
    /\ \E p \in Readings \cup MalformedReadings : DecideStep(p)

NextLoop ==
    \/ DecideAny
    \/ ApplyStep

SpecLoop == InitLoop /\ [][NextLoop]_vars

-----------------------------------------------------------------------------
(* Claims about decide and the closed loop (SpecLoop)                      *)

\* C1: the Command returned by decide never has heater and ventilation both
\* ON.  (Stated as claimed; the humidity stage breaks it.)
C1_HeaterVentilationExclusive ==
    pc = "apply" => ~(command.heater /\ command.ventilation)

\* C2: in the closed loop, once decide has returned heater ON on a reading
\* below TEMP_MIN, every later Command has heater ON until a reading exceeds
\* TEMP_MIN + TEMP_BUFFER.
C2_HeaterStaysOnInBand ==
    (pc = "apply" /\ heater_latched) => command.heater

\* C2 witness: a later tick whose temperature is back above TEMP_MIN (inside
\* the band) with humidity above HUM_MAX, and the heater is still ON.
C2_Witness ==
    /\ pc = "apply"
    /\ heater_latched
    /\ reading.temperature > TEMP_MIN
    /\ reading.humidity > HUM_MAX
    /\ equipment_state.heater
    /\ command.heater

\* C5: ventilation ON in the returned Command implies co2_injector OFF in it.
C5_VentilationExcludesInjector ==
    pc = "apply" => (command.ventilation => ~command.co2_injector)

\* C5 witness: ventilation ON while CO2 is below CO2_MIN and the injector was
\* ON in the registry.
C5_Witness ==
    /\ pc = "apply"
    /\ command.ventilation
    /\ reading.co2_concentration < CO2_MIN
    /\ equipment_state.co2_injector
    /\ ~command.co2_injector

\* C7: decide leaves the EquipmentState table as it found it.
C7_DecideKeepsRegistry ==
    pc = "apply" => registry = equipment_state

\* C7 witness: decide returned a Command that differs from the registry, and
\* the registry still holds its old states.
C7_Witness ==
    /\ pc = "apply"
    /\ command # equipment_state
    /\ registry = equipment_state

\* C9: temperature > TEMP_MAX and humidity > HUM_MAX on an all-OFF registry
\* gives ventilation ON, co2_injector OFF, dehumidifier OFF.
C9_HotHumidPrecedence ==
    (/\ pc = "apply"
     /\ reading.temperature > TEMP_MAX
     /\ reading.humidity > HUM_MAX
     /\ equipment_state = AllOff)
    => (command.ventilation /\ ~command.co2_injector /\ ~command.dehumidifier)

\* C9 witness: such a reading with CO2 below CO2_MIN (the injector rule would
\* otherwise fire).
C9_Witness ==
    /\ pc = "apply"
    /\ reading.temperature > TEMP_MAX
    /\ reading.humidity > HUM_MAX
    /\ reading.co2_concentration < CO2_MIN
    /\ equipment_state = AllOff
    /\ command.ventilation

\* C20: decide on a Reading with a malformed metric fails with an
\* InvalidInput error and returns no Command.  (Stated as claimed; decide
\* has no such test and compares the value as it is.)
C20_MalformedReadingRejected ==
    (pc = "apply" /\ reading \in MalformedReadings) => command = NoValue

\* C22: in the closed loop ventilation is switched ON by a reading above
\* TEMP_MAX, and a registry that has ventilation ON (the previous Command)
\* keeps it ON for every reading at or above TEMP_MAX - TEMP_BUFFER, whatever
\* the other metrics: so it stays ON up to the first reading below the band.
C22_VentilationStaysOnInBand ==
    pc = "apply" =>
        /\ reading.temperature > TEMP_MAX => command.ventilation
        /\ (equipment_state.ventilation
              /\ reading.temperature >= TEMP_MAX - TEMP_BUFFER)
               => command.ventilation

\* C22 witness: ventilation carried through the band by a reading that would
\* not have started it.
C22_Witness ==
    /\ pc = "apply"
    /\ equipment_state.ventilation
    /\ reading.temperature >= TEMP_MAX - TEMP_BUFFER
    /\ reading.temperature <= TEMP_MAX
    /\ command.ventilation

\* C23: for every registry and reading the heater is ON below TEMP_MIN and
\* OFF above TEMP_MIN + TEMP_BUFFER, and the returned heater value is the one
\* the temperature stage computed: no later stage changes it.
C23_HeaterDecidedByTemperatureStage ==
    pc = "apply" =>
        /\ reading.temperature < TEMP_MIN => command.heater
        /\ reading.temperature > TEMP_MIN + TEMP_BUFFER => ~command.heater
        /\ command.heater =
               TemperatureStage(reading, equipment_state,
                                InitialCommand(equipment_state)).heater

\* C23 witness: a cold and dangerously humid reading, which the final pass
\* lets through untouched, starts the heater beside the dehumidifier.
C23_Witness ==
    /\ pc = "apply"
    /\ reading.temperature < TEMP_MIN
    /\ reading.humidity > HUM_MAX + DANGER_HUM_MARGIN
    /\ ~equipment_state.heater
    /\ command.heater
    /\ command.dehumidifier

\* C24 as stated: a registry with irrigation ON keeps it ON for every reading
\* whose soil moisture does not exceed SOIL_MIN + SOIL_BUFFER, whatever the
\* humidity.
C24_IrrigationStaysOn ==
    (pc = "apply" /\ equipment_state.irrigation
        /\ reading.soil_moisture <= SOIL_MIN + SOIL_BUFFER)
        => command.irrigation

\* C24: in the closed loop a registry with irrigation ON (the previous
\* Command) keeps it ON for every reading whose soil moisture does not exceed
\* SOIL_MIN + SOIL_BUFFER, except a reading below SOIL_MIN whose humidity is
\* above HUM_MAX - 2, which switches it OFF.
C24_IrrigationStaysOnUnlessHumid ==
    (pc = "apply" /\ equipment_state.irrigation
        /\ reading.soil_moisture <= SOIL_MIN + SOIL_BUFFER)
        => (command.irrigation <=>
               ~(reading.soil_moisture < SOIL_MIN
                   /\ reading.humidity > HUM_MAX - IRRIGATION_HUM_MARGIN))

\* C24 witness: irrigation carried through the band under a humidity that
\* would have blocked it below SOIL_MIN.
C24_Witness ==
    /\ pc = "apply"
    /\ equipment_state.irrigation
    /\ reading.soil_moisture >= SOIL_MIN
    /\ reading.soil_moisture <= SOIL_MIN + SOIL_BUFFER
    /\ reading.humidity > HUM_MAX - IRRIGATION_HUM_MARGIN
    /\ command.irrigation

\* C25 as stated: with humidity in [HUM_MAX - HUM_BUFFER, HUM_MAX] a
\* dehumidifier that is ON in the registry is ON in the Command, whatever the
\* temperature.
C25_DehumidifierStaysOn ==
    (pc = "apply" /\ equipment_state.dehumidifier
        /\ reading.humidity >= HUM_MAX - HUM_BUFFER
        /\ reading.humidity <= HUM_MAX)
        => command.dehumidifier

\* C25: with humidity in [HUM_MAX - HUM_BUFFER, HUM_MAX] a dehumidifier that
\* is ON in the registry is ON in the Command unless the Command ventilates
\* at or above TEMP_MAX, and then it is OFF; with humidity below
\* HUM_MAX - HUM_BUFFER it is OFF.
C25_DehumidifierStaysOnUnlessVentilatingHot ==
    pc = "apply" =>
        /\ (equipment_state.dehumidifier
              /\ reading.humidity >= HUM_MAX - HUM_BUFFER
              /\ reading.humidity <= HUM_MAX)
               => (command.dehumidifier <=>
                      ~(command.ventilation /\ reading.temperature >= TEMP_MAX))
        /\ reading.humidity < HUM_MAX - HUM_BUFFER => ~command.dehumidifier

\* C25 witness: the dehumidifier kept ON at TEMP_MAX, without ventilation.
C25_Witness ==
    /\ pc = "apply"
    /\ equipment_state.dehumidifier
    /\ reading.humidity >= HUM_MAX - HUM_BUFFER
    /\ reading.humidity <= HUM_MAX
    /\ reading.temperature >= TEMP_MAX
    /\ command.dehumidifier

\* C26 as stated: in the optimal light band lights and blinds both equal
\* their registry states.
C26_LightBandHoldsBoth ==
    (pc = "apply" /\ reading.light_intensity >= LIGHT_MIN_GROWTH
        /\ reading.light_intensity <= LIGHT_MAX_STRESS)
        => /\ command.lights = equipment_state.lights
           /\ command.light_blinds = equipment_state.light_blinds

\* C26: in the optimal light band the blinds equal their registry state, and
\* the lights equal theirs unless the Command ventilates at or above
\* TEMP_MAX, and then the lights are OFF.
C26_LightBandHoldsUnlessVentilatingHot ==
    (pc = "apply" /\ reading.light_intensity >= LIGHT_MIN_GROWTH
        /\ reading.light_intensity <= LIGHT_MAX_STRESS)
        => /\ command.light_blinds = equipment_state.light_blinds
           /\ command.lights =
                  IF command.ventilation /\ reading.temperature >= TEMP_MAX
                  THEN FALSE
                  ELSE equipment_state.lights

\* C26 witness: lights held ON at TEMP_MAX, without ventilation, blinds
\* held closed.
C26_Witness ==
    /\ pc = "apply"
    /\ reading.light_intensity >= LIGHT_MIN_GROWTH
    /\ reading.light_intensity <= LIGHT_MAX_STRESS
    /\ reading.temperature >= TEMP_MAX
    /\ equipment_state.lights
    /\ equipment_state.light_blinds
    /\ command.lights
    /\ command.light_blinds

\* C27: with humidity above HUM_MAX, a temperature above TEMP_MIN + 0.5
\* gives ventilation ON and dehumidifier OFF; any other temperature gives
\* dehumidifier ON.
C27_HumidPrefersVentilation ==
    (pc = "apply" /\ reading.humidity > HUM_MAX)
        => IF reading.temperature > TEMP_MIN + VENT_TEMP_SLACK
           THEN command.ventilation /\ ~command.dehumidifier
           ELSE command.dehumidifier

\* C27 witness: just above the slack, with the heater still ON in its band,
\* ventilation is chosen over the dehumidifier.
C27_Witness ==
    /\ pc = "apply"
    /\ reading.humidity > HUM_MAX
    /\ reading.temperature > TEMP_MIN + VENT_TEMP_SLACK
    /\ reading.temperature <= TEMP_MIN + TEMP_BUFFER
    /\ equipment_state.dehumidifier
    /\ command.ventilation
    /\ ~command.dehumidifier

\* C28: a Command that ventilates on a reading at or above TEMP_MAX has
\* lights and dehumidifier OFF.
C28_VentilatingHotDropsHeatSources ==
    (pc = "apply" /\ command.ventilation /\ reading.temperature >= TEMP_MAX)
        => ~command.lights /\ ~command.dehumidifier

\* C28 witness: lights and dehumidifier ON in the registry, both inside
\* their hold bands, forced OFF by the final pass.
C28_Witness ==
    /\ pc = "apply"
    /\ command.ventilation
    /\ reading.temperature >= TEMP_MAX
    /\ equipment_state.lights
    /\ equipment_state.dehumidifier
    /\ reading.light_intensity >= LIGHT_MIN_GROWTH
    /\ reading.light_intensity <= LIGHT_MAX_STRESS
    /\ reading.humidity >= HUM_MAX - HUM_BUFFER
    /\ reading.humidity <= HUM_MAX
    /\ ~command.lights
    /\ ~command.dehumidifier

\* C29: with light below LIGHT_MIN_GROWTH the blinds are OFF and the lights
\* are ON exactly when the temperature is below TEMP_MAX - 0.5.
C29_DarkLightsUnlessHot ==
    (pc = "apply" /\ reading.light_intensity < LIGHT_MIN_GROWTH)
        => /\ ~command.light_blinds
           /\ command.lights <=>
                  (reading.temperature < TEMP_MAX - LIGHTS_TEMP_MARGIN)

\* C29 witness: at exactly TEMP_MAX - 0.5 the lights, ON in the registry,
\* are switched OFF and the closed blinds are opened.
C29_Witness ==
    /\ pc = "apply"
    /\ reading.light_intensity < LIGHT_MIN_GROWTH
    /\ reading.temperature = TEMP_MAX - LIGHTS_TEMP_MARGIN
    /\ equipment_state.lights
    /\ equipment_state.light_blinds
    /\ ~command.lights
    /\ ~command.light_blinds

\* C30: with soil moisture below SOIL_MIN irrigation is ON exactly when
\* humidity is at most HUM_MAX - 2, whatever the registry.
C30_DrySoilIrrigatesUnlessHumid ==
    (pc = "apply" /\ reading.soil_moisture < SOIL_MIN)
        => (command.irrigation <=>
               (reading.humidity <= HUM_MAX - IRRIGATION_HUM_MARGIN))

\* C30 witness: irrigation ON in the registry is switched OFF on dry soil
\* because humidity is within 2 of HUM_MAX.
C30_Witness ==
    /\ pc = "apply"
    /\ reading.soil_moisture < SOIL_MIN
    /\ reading.humidity > HUM_MAX - IRRIGATION_HUM_MARGIN
    /\ reading.humidity <= HUM_MAX
    /\ equipment_state.irrigation
    /\ ~command.irrigation

\* C31: a Command with ventilation OFF has the injector on its hysteresis:
\* ON below CO2_MIN, OFF above CO2_MIN + CO2_BUFFER, the registry state in
\* between; the final pass never switches ventilation OFF after the CO2
\* stage forced the injector OFF.
C31_InjectorHysteresisWithoutVentilation ==
    (pc = "apply" /\ ~command.ventilation)
        => /\ reading.co2_concentration < CO2_MIN => command.co2_injector
           /\ reading.co2_concentration > CO2_MIN + CO2_BUFFER
                  => ~command.co2_injector
           /\ (reading.co2_concentration >= CO2_MIN
                 /\ reading.co2_concentration <= CO2_MIN + CO2_BUFFER)
                  => command.co2_injector = equipment_state.co2_injector

\* C31 witness: heating at or below TEMP_MIN with ventilation ON in the
\* registry, the case the final heating rule is written for: the Command has
\* ventilation OFF and the injector started.
C31_Witness ==
    /\ pc = "apply"
    /\ reading.temperature <= TEMP_MIN
    /\ reading.humidity <= HUM_MAX + DANGER_HUM_MARGIN
    /\ reading.co2_concentration < CO2_MIN
    /\ equipment_state.ventilation
    /\ ~equipment_state.co2_injector
    /\ command.heater
    /\ ~command.ventilation
    /\ command.co2_injector

\* C37: decide is at a fixed point after one step: deciding again on the same
\* reading, with the Command applied to the registry, returns that Command.
C37_DecideIdempotent ==
    (pc = "apply" /\ command # NoValue)
        => Decide(reading,
                  apply_command_to_equipment_state(registry, command))
               = command

\* C37 witness: a Command that differs from the registry it was decided on.
C37_Witness ==
    /\ pc = "apply"
    /\ command # NoValue
    /\ command # equipment_state
    /\ command.ventilation
    /\ equipment_state.lights
    /\ ~command.lights

\* C38: for every reading at or below TEMP_MIN the Command has ventilation
\* OFF, also when humidity is above HUM_MAX + 5.
C38_NoVentilationWhenCold ==
    (pc = "apply" /\ command # NoValue /\ reading.temperature <= TEMP_MIN)
        => ~command.ventilation

\* C38 witness: heating at TEMP_MIN under dangerously high humidity, with
\* ventilation ON in the registry.
C38_Witness ==
    /\ pc = "apply"
    /\ command # NoValue
    /\ reading.temperature <= TEMP_MIN
    /\ reading.humidity > HUM_MAX + DANGER_HUM_MARGIN
    /\ equipment_state.ventilation
    /\ command.heater
    /\ ~command.ventilation

\* C39: a Command has lights and blinds both ON only if both were ON in the
\* registry and the light is in the optimal band; and a closed-loop step
\* from a registry where they are not both ON never reaches one where they
\* are.
C39_NoLightsBlindsConflictCreated ==
    /\ []((pc = "apply" /\ command # NoValue
             /\ command.lights /\ command.light_blinds)
            => /\ equipment_state.lights
               /\ equipment_state.light_blinds
               /\ reading.light_intensity >= LIGHT_MIN_GROWTH
               /\ reading.light_intensity <= LIGHT_MAX_STRESS)
    /\ [][~(registry.lights /\ registry.light_blinds)
            => ~(registry'.lights /\ registry'.light_blinds)]_vars

\* C39 witness: a registry with both ON whose conflict a bright reading
\* resolves.
C39_Witness ==
    /\ pc = "apply"
    /\ command # NoValue
    /\ equipment_state.lights
    /\ equipment_state.light_blinds
    /\ reading.light_intensity > LIGHT_MAX_STRESS
    /\ command.light_blinds
    /\ ~command.lights

-----------------------------------------------------------------------------
(* GreenhouseDataGenerator (services/data_generator.py), values in         *)
(* hundredths                                                              *)

WEATHERS == {"Sunny", "Clear_sky", "Cloudy", "Rainy", "Windy"}

WEATHER_TARGETS ==
    [Sunny |->
        [temperature |-> 2800, humidity |-> 4500, light_intensity |-> 3500000,
         soil_moisture |-> 5000, co2_concentration |-> 40000],
     Clear_sky |->
        [temperature |-> 2300, humidity |-> 6000, light_intensity |-> 1500000,
         soil_moisture |-> 5500, co2_concentration |-> 40000],
     Cloudy |->
        [temperature |-> 1900, humidity |-> 7500, light_intensity |-> 500000,
         soil_moisture |-> 5800, co2_concentration |-> 40000],
     Rainy |->
        [temperature |-> 1600, humidity |-> 9000, light_intensity |-> 200000,
         soil_moisture |-> 7500, co2_concentration |-> 40000],
     Windy |->
        [temperature |-> 2000, humidity |-> 5000, light_intensity |-> 1200000,
         soil_moisture |-> 4800, co2_concentration |-> 38000]]

EQUIPMENT_TARGETS ==
    [heater |-> [temperature |-> 800],
     ventilation |-> [temperature |-> -800, humidity |-> -1500,
                      co2_concentration |-> -5000],
     irrigation |-> [soil_moisture |-> 2500, humidity |-> 500],
     co2_injector |-> [co2_concentration |-> 30000],
     lights |-> [light_intensity |-> 1500000, temperature |-> 200],
     dehumidifier |-> [humidity |-> -2000, temperature |-> 150],
     light_blinds |-> [light_intensity |-> -1000000]]

\* Convergence rates, in percent.
CONVERGENCE_RATES ==
    [temperature |-> 8, humidity |-> 10, soil_moisture |-> 5,
     light_intensity |-> 15, co2_concentration |-> 12]

WEATHER_TRANSITIONS ==
    [Sunny |-> {"Cloudy", "Clear_sky", "Windy"},
     Clear_sky |-> {"Cloudy", "Sunny", "Windy"},
     Cloudy |-> {"Sunny", "Clear_sky", "Rainy", "Windy"},
     Rainy |-> {"Cloudy", "Windy"},
     Windy |-> {"Cloudy", "Clear_sky", "Rainy"}]

\* generate_reading changes the weather when tick % 40 == 0.
TRANSITION_PERIOD == 40

\* _constrain_values: the clamp bounds.
LOWER_BOUNDS ==
    [temperature |-> 0, humidity |-> 0, soil_moisture |-> 0,
     light_intensity |-> 0, co2_concentration |-> 30000]

UPPER_BOUNDS ==
    [temperature |-> 5000, humidity |-> 10000, soil_moisture |-> 10000,
     light_intensity |-> 10000000, co2_concentration |-> 200000]

\* _create_reading: the noise percentages, in tenths of a percent.
NOISE_PERMILLE ==
    [temperature |-> 5, humidity |-> 10, soil_moisture |-> 15,
     light_intensity |-> 20, co2_concentration |-> 10]

Equipment(h, v, i, c, l, d, b) ==
    [heater |-> h, ventilation |-> v, irrigation |-> i, co2_injector |-> c,
     lights |-> l, dehumidifier |-> d, light_blinds |-> b]

Metrics(t, h, s, l, c) ==
    [temperature |-> t, humidity |-> h, soil_moisture |-> s,
     light_intensity |-> l, co2_concentration |-> c]

\* STARTING_CONFIGS without 'random': literal metrics, weather, equipment.
STARTING_CONFIGS ==
    [optimal |->
        [metrics |-> Metrics(2200, 6500, 6000, 500000, 40000),
         weather |-> "Clear_sky",
         equipment |-> Equipment(FALSE, FALSE, FALSE, FALSE, FALSE, FALSE, FALSE)],
     cold_start |->
        [metrics |-> Metrics(1500, 8000, 4500, 100000, 35000),
         weather |-> "Cloudy",
         equipment |-> Equipment(TRUE, FALSE, TRUE, FALSE, TRUE, FALSE, FALSE)],
     hot_humid |->
        [metrics |-> Metrics(3000, 8500, 7000, 800000, 45000),
         weather |-> "Sunny",
         equipment |-> Equipment(FALSE, TRUE, FALSE, FALSE, FALSE, TRUE, FALSE)],
     night_cold |->
        [metrics |-> Metrics(1400, 7000, 5500, 30000, 42000),
         weather |-> "Clear_sky",
         equipment |-> Equipment(FALSE, FALSE, FALSE, FALSE, FALSE, FALSE, FALSE)],
     heat_stress |->
        [metrics |-> Metrics(3800, 4000, 4500, 6000000, 43000),
         weather |-> "Sunny",
         equipment |-> Equipment(FALSE, FALSE, FALSE, FALSE, TRUE, FALSE, FALSE)],
     mold_risk |->
        [metrics |-> Metrics(1800, 9500, 7000, 400000, 42000),
         weather |-> "Rainy",
         equipment |-> Equipment(FALSE, FALSE, TRUE, FALSE, FALSE, FALSE, FALSE)],
     drought |->
        [metrics |-> Metrics(2600, 3500, 1000, 1200000, 42000),
         weather |-> "Windy",
         equipment |-> Equipment(FALSE, FALSE, FALSE, FALSE, FALSE, FALSE, FALSE)],
     sensor_glitch |->
        [metrics |-> Metrics(0, 0, 0, 0, 200000),
         weather |-> "Clear_sky",
         equipment |-> Equipment(FALSE, FALSE, FALSE, TRUE, TRUE, TRUE, FALSE)],
     conflict_start |->
        [metrics |-> Metrics(2200, 6500, 5500, 700000, 45000),
         weather |-> "Clear_sky",
         equipment |-> Equipment(TRUE, TRUE, FALSE, TRUE, TRUE, TRUE, TRUE)]]

\* STARTING_CONFIGS['random']: each metric is uniform in a range; the draws
\* taken here are the two ends of every range.
RANDOM_METRICS ==
    {Metrics(1800, 5000, 4000, 200000, 35000),
     Metrics(2800, 8000, 7000, 800000, 50000)}

\* Mutant of ResolvedConfigs: an unknown name falls back to 'cold_start'.
ResolvedConfigsOtherDefault(name) ==
    IF name = "random"
    THEN [metrics : RANDOM_METRICS, weather : WEATHERS, equipment : AllRegistries]
    ELSE IF name \in DOMAIN STARTING_CONFIGS
         THEN {STARTING_CONFIGS[name]}
         ELSE {STARTING_CONFIGS["cold_start"]}

\* The configurations initialize can resolve config_name to: the named one,
\* 'optimal' for an unknown name, any draw of 'random'.
ResolvedConfigs(name) ==
    IF name = "random"
    THEN [metrics : RANDOM_METRICS, weather : WEATHERS, equipment : AllRegistries]
    ELSE IF name \in DOMAIN STARTING_CONFIGS
         THEN {STARTING_CONFIGS[name]}
         ELSE {STARTING_CONFIGS["optimal"]}

ConfigNames == (DOMAIN STARTING_CONFIGS) \cup {"random", "no_such_config"}

\* a / b rounded to the nearest integer (b > 0).
RoundDiv(a, b) == (2 * a + b) \div (2 * b)

Max(a, b) == IF a >= b THEN a ELSE b
Min(a, b) == IF a <= b THEN a ELSE b

\* Mutant of _initialize_equipment: only the active kinds get a row.
_initialize_equipment_active_only(table, equipment_config) ==
    LET active == {e \in DOMAIN equipment_config : equipment_config[e]}
    IN [e \in (DOMAIN table) \cup active |->
          IF e \in active THEN TRUE ELSE table[e]]

\* data_generator.py:304-316: get_or_create every configured kind.
_initialize_equipment(table, equipment_config) ==
    [e \in (DOMAIN table) \cup (DOMAIN equipment_config) |->
        IF e \in DOMAIN equipment_config THEN equipment_config[e] ELSE table[e]]

\* The delta of equipment kind e on metric m (EQUIPMENT_TARGETS.get).
EquipmentDelta(e, m) ==
    IF e \in DOMAIN EQUIPMENT_TARGETS /\ m \in DOMAIN EQUIPMENT_TARGETS[e]
    THEN EQUIPMENT_TARGETS[e][m]
    ELSE 0

RECURSIVE SumDeltas(_, _)
SumDeltas(active, m) ==
    IF active = {} THEN 0
    ELSE LET e == CHOOSE x \in active : TRUE
         IN  EquipmentDelta(e, m) + SumDeltas(active \ {e}, m)

\* data_generator.py:345-357: weather targets plus the deltas of every
\* active row of the EquipmentState table.
_calculate_targets(weather, table) ==
    LET active == {e \in DOMAIN table : table[e]}
    IN  [m \in METRICS |-> WEATHER_TARGETS[weather][m] + SumDeltas(active, m)]

\* Mutant of _move_toward_targets: the step is added to a full jump to the
\* target, so every metric overshoots it.
_move_toward_targets_overshoot(cur, targets) ==
    [m \in METRICS |->
        targets[m] + RoundDiv((targets[m] - cur[m]) * CONVERGENCE_RATES[m], 100)]

\* data_generator.py:373-394: one convergence step of every metric.
_move_toward_targets(cur, targets) ==
    [m \in METRICS |->
        cur[m] + RoundDiv((targets[m] - cur[m]) * CONVERGENCE_RATES[m], 100)]

\* Mutant of _constrain_values: only the upper bounds are enforced.
_constrain_values_upper_only(cur) ==
    [m \in METRICS |-> Min(UPPER_BOUNDS[m], cur[m])]

\* data_generator.py:418-424.
_constrain_values(cur) ==
    [m \in METRICS |-> Max(LOWER_BOUNDS[m], Min(UPPER_BOUNDS[m], cur[m]))]

\* Mutant of _change_weather: any other regime may follow.
_change_weather_any(weather) == WEATHERS \ {weather}

\* Mutant of _change_weather: the table lets every regime follow itself.
_change_weather_may_stay(weather) ==
    IF weather \in DOMAIN WEATHER_TRANSITIONS
    THEN WEATHER_TRANSITIONS[weather] \cup {weather}
    ELSE {"Clear_sky"}

\* data_generator.py:397-403: the regimes random.choice can return.
_change_weather(weather) ==
    IF weather \in DOMAIN WEATHER_TRANSITIONS
    THEN WEATHER_TRANSITIONS[weather]
    ELSE {"Clear_sky"}

\* random.uniform(-noise, noise) is drawn as k / NoiseSteps of the amplitude,
\* k in -NoiseSteps .. NoiseSteps - 1 (the upper end itself is left out).
NoiseSteps == 2

NoiseDraws == (0 - NoiseSteps) .. (NoiseSteps - 1)

\* One draw per metric of a reading; the vectors taken are those in which the
\* five sensors err by the same fraction of their amplitude.
NoiseVectors == {[m \in METRICS |-> k] : k \in NoiseDraws}

\* data_generator.py:426-429: value + uniform(-noise, noise) with draw k.
_add_noise(value, noise_permille, k) ==
    value + RoundDiv(value * noise_permille * k, 1000 * NoiseSteps)

\* data_generator.py:431-443: the reading saved for the current values.
_create_reading(cur, weather, t, nv) ==
    [temperature |-> _add_noise(cur.temperature, NOISE_PERMILLE.temperature,
                                nv.temperature),
     humidity |-> _add_noise(cur.humidity, NOISE_PERMILLE.humidity, nv.humidity),
     soil_moisture |-> _add_noise(cur.soil_moisture, NOISE_PERMILLE.soil_moisture,
                                  nv.soil_moisture),
     light_intensity |-> _add_noise(cur.light_intensity,
                                    NOISE_PERMILLE.light_intensity,
                                    nv.light_intensity),
     co2_concentration |-> _add_noise(cur.co2_concentration,
                                      NOISE_PERMILLE.co2_concentration,
                                      nv.co2_concentration),
     weather |-> weather,
     tick |-> t]

\* Mutant of CurrentAfterReading: the noisy values are stored back.
CurrentAfterReadingNoisy(cur, rd) == [m \in METRICS |-> rd[m]]

\* data_generator.py:431-443: _create_reading passes the current values to
\* _add_noise and assigns none of them.
CurrentAfterReading(cur, rd) == cur

\* The EquipmentState table before the first initialize.
EmptyTable == [e \in {} |-> FALSE]

\* data_generator.py:245-290: __init__ and initialize for a configuration
\* name: metrics, weather, equipment rows, first reading.
initialize ==
    /\ config_name \in ConfigNames
    /\ tick = 0
    /\ last_targets = NoValue
    /\ \E config \in ResolvedConfigs(config_name) :
          /\ current_weather = config.weather
          /\ registry = _initialize_equipment(EmptyTable, config.equipment)
          /\ \E nv \in NoiseVectors :
                /\ reading = _create_reading(config.metrics, current_weather,
                                             tick, nv)
                /\ current = CurrentAfterReading(config.metrics, reading)

\* Mutant of generate_reading: the transition test reads the tick before it
\* is incremented.
generate_reading_stale_tick(nv) ==
    /\ tick' = tick + 1
    /\ current_weather' \in
          (IF tick % TRANSITION_PERIOD = 0
           THEN _change_weather(current_weather)
           ELSE {current_weather})
    /\ last_targets' = _calculate_targets(current_weather', registry)
    /\ LET clamped ==
               _constrain_values(_move_toward_targets(current, last_targets'))
       IN /\ reading' = _create_reading(clamped, current_weather', tick', nv)
          /\ current' = CurrentAfterReading(clamped, reading')
    /\ UNCHANGED config_name

\* data_generator.py:318-341: generate_reading with noise draws nv.
generate_reading(nv) ==
    /\ tick' = tick + 1
    /\ current_weather' \in
          (IF tick' % TRANSITION_PERIOD = 0
           THEN _change_weather(current_weather)
           ELSE {current_weather})
    /\ last_targets' = _calculate_targets(current_weather', registry)
    /\ LET clamped ==
               _constrain_values(_move_toward_targets(current, last_targets'))
       IN /\ reading' = _create_reading(clamped, current_weather', tick', nv)
          /\ current' = CurrentAfterReading(clamped, reading')
    /\ UNCHANGED config_name

-----------------------------------------------------------------------------
(* The generator while the equipment is switched from outside (the         *)
(* Commands of the runner's classifier, simulation_runner.py:145-158)      *)

\* Mutant of apply_equipment_state: a kind the Command names ON is switched
\* over instead of being set.
apply_equipment_state_toggle(table, new_state) ==
    [e \in (DOMAIN table) \cup EQUIPMENT_FIELDS |->
        IF e \in EQUIPMENT_FIELDS
        THEN (IF e \in DOMAIN new_state /\ new_state[e]
              THEN ~is_on(table, e)
              ELSE is_on(table, e))
        ELSE table[e]]

\* simulation_runner.py:22-27.
apply_equipment_state(table, new_state) ==
    [e \in (DOMAIN table) \cup EQUIPMENT_FIELDS |->
        IF e \in EQUIPMENT_FIELDS
        THEN (IF e \in DOMAIN new_state THEN new_state[e] ELSE FALSE)
        ELSE table[e]]

\* Commands a classifier may return (it is a black box): nothing, everything,
\* the blinds alone, everything that cools, dries and darkens, everything
\* that heats, wets and lights.
CommandChoices ==
    {Equipment(FALSE, FALSE, FALSE, FALSE, FALSE, FALSE, FALSE),
     Equipment(TRUE, TRUE, TRUE, TRUE, TRUE, TRUE, TRUE),
     Equipment(FALSE, FALSE, FALSE, FALSE, FALSE, FALSE, TRUE),
     Equipment(FALSE, TRUE, FALSE, FALSE, FALSE, TRUE, TRUE),
     Equipment(TRUE, FALSE, TRUE, TRUE, TRUE, FALSE, FALSE)}

\* Ticks of one run of the generator.
MaxGenTicks == 2

InitGen ==
    /\ initialize
    /\ RunnerIdle
    /\ equipment_state = NoValue
    /\ command = NoValue
    /\ pc = "generate"
    /\ heater_latched = FALSE

GenTick ==
    /\ tick < MaxGenTicks
    /\ \E nv \in NoiseVectors : generate_reading(nv)
    /\ UNCHANGED <<registry, equipment_state, command, pc, heater_latched,
                   runnerVars>>

ApplyAny ==
    /\ tick < MaxGenTicks
    /\ \E cmd \in CommandChoices :
          /\ command' = cmd
          /\ registry' = apply_equipment_state(registry, cmd)
    /\ UNCHANGED <<reading, equipment_state, pc, heater_latched, genVars,
                   runnerVars>>

NextGen ==
    \/ GenTick
    \/ ApplyAny

SpecGen == InitGen /\ [][NextGen]_vars

-----------------------------------------------------------------------------
(* Claims about the generator (SpecGen)                                    *)

WithinBounds(v) ==
    \A m \in METRICS : LOWER_BOUNDS[m] <= v[m] /\ v[m] <= UPPER_BOUNDS[m]

\* C3: every Reading emitted by initialize or generate_reading has its five
\* metrics within the clamp bounds.  (Stated as claimed; the noise is added
\* after the clamp and the sum is not clamped again.)
C3_ReadingWithinBounds == WithinBounds(reading)

\* C10: after every generate_reading call the simulator's current values are
\* within the clamp bounds.
C10_CurrentWithinBounds == tick > 0 => WithinBounds(current)

\* C10 witness: a tick under Rainy weather with the blinds active, whose
\* light target is negative and whose convergence step was clamped at zero.
C10_Witness ==
    /\ tick > 0
    /\ current_weather = "Rainy"
    /\ last_targets.light_intensity < 0
    /\ registry.light_blinds
    /\ current.light_intensity = 0

\* C11: producing a Reading leaves the current values unchanged: initialize
\* keeps the configured values, and every generate_reading leaves the
\* clamped convergence step of the previous current values towards the
\* tick's targets, whatever noise the previous and this reading drew.
C11_NoiseStaysOutOfState ==
    /\ [](tick = 0 =>
             \E config \in ResolvedConfigs(config_name) :
                 current = config.metrics)
    /\ [][tick' = tick + 1 =>
             current' = _constrain_values(
                            _move_toward_targets(current, last_targets'))]_vars

\* C11 witness: the second tick, its reading off the current values by the
\* noise drawn.
C11_Witness ==
    /\ tick = 2
    /\ reading.tick = 2
    /\ reading.temperature # current.temperature
    /\ reading.co2_concentration # current.co2_concentration

\* C32: in each generate_reading step the value of a metric after the
\* convergence update is current + (target - current) * rate with the
\* metric's own rate in (0,1); it lies between the previous value and the
\* target, and the metric's new current value is the clamp of it, a function
\* of that metric's previous value and target alone.
C32_ConvergenceStepNeverOvershoots ==
    [][tick' = tick + 1 =>
         \A m \in METRICS :
            LET c == current[m]
                t == last_targets'[m]
                moved == _move_toward_targets(current, last_targets')[m]
            IN /\ 0 < CONVERGENCE_RATES[m] /\ CONVERGENCE_RATES[m] < 100
               /\ moved = c + RoundDiv((t - c) * CONVERGENCE_RATES[m], 100)
               /\ Min(c, t) <= moved /\ moved <= Max(c, t)
               /\ current'[m] =
                      Max(LOWER_BOUNDS[m], Min(UPPER_BOUNDS[m], moved))]_vars

\* C32 witness: the first tick of a cold start, the temperature strictly
\* between its starting value and the tick's target.
C32_Witness ==
    /\ config_name = "cold_start"
    /\ tick = 1
    /\ current.temperature > 1500
    /\ current.temperature < last_targets.temperature
    /\ current.humidity < 8000
    /\ current.humidity > last_targets.humidity

\* C16: after initialize and any ticks and Command applications the registry
\* has one entry for each of the 7 equipment kinds and no other (a kind is
\* the key of the table, unique by models.py:61).
C16_RegistryFullyPopulated == DOMAIN registry = EQUIPMENT_FIELDS

\* C16 witness: a registry written by initialize and then by a Command,
\* read by a tick.
C16_Witness ==
    /\ tick > 0
    /\ command # NoValue
    /\ registry = command
    /\ Cardinality(DOMAIN registry) = 7

\* C19: initialize with a name that is no starting configuration sets the
\* metrics, the weather and the equipment of 'optimal'.
C19_UnknownConfigFallsBack ==
    (/\ config_name \notin (DOMAIN STARTING_CONFIGS) \cup {"random"}
     /\ tick = 0
     /\ command = NoValue)
    => /\ current = STARTING_CONFIGS["optimal"].metrics
       /\ current_weather = STARTING_CONFIGS["optimal"].weather
       /\ registry = STARTING_CONFIGS["optimal"].equipment

\* C19 witness: the generator initialized under an unknown name.
C19_Witness ==
    /\ config_name = "no_such_config"
    /\ tick = 0
    /\ command = NoValue
    /\ reading.tick = 0
    /\ current_weather = "Clear_sky"

-----------------------------------------------------------------------------
(* The closed loop of generate_training_data (Command.handle)              *)

\* total_steps of one run (samples + 1).
MaxTrainTicks == 4

\* generate_training_data.py:89-94.
InitTrain ==
    /\ initialize
    /\ RunnerIdle
    /\ equipment_state = NoValue
    /\ command = NoValue
    /\ pc = "generate"
    /\ heater_latched = FALSE

\* generate_training_data.py:101: reading = generator.generate_reading().
TrainGenerate ==
    /\ pc = "generate"
    /\ tick < MaxTrainTicks
    /\ \E nv \in NoiseVectors : generate_reading(nv)
    /\ pc' = "decide"
    /\ UNCHANGED <<registry, equipment_state, command, heater_latched, runnerVars>>

\* generate_training_data.py:102: command = decision_model.decide(reading).
TrainDecide ==
    /\ pc = "decide"
    /\ equipment_state' = registry
    /\ command' = Decide(reading, registry)
    /\ registry' = RegistryAfterDecide(reading, registry)
    /\ pc' = "apply"
    /\ UNCHANGED <<reading, heater_latched, genVars, runnerVars>>

\* generate_training_data.py:105: apply_command_to_equipment_state(command).
TrainApply ==
    /\ pc = "apply"
    /\ registry' = apply_command_to_equipment_state(registry, command)
    /\ pc' = "generate"
    /\ UNCHANGED <<reading, equipment_state, command, heater_latched, genVars,
                   runnerVars>>

NextTrain ==
    \/ TrainGenerate
    \/ TrainDecide
    \/ TrainApply

SpecTrain == InitTrain /\ [][NextTrain]_vars

-----------------------------------------------------------------------------
(* Claims about the closed loop (SpecTrain)                                *)

\* C8: every tick runs generate_reading, decide on that reading, then apply;
\* after the tick the registry holds exactly the tick's Command for all 7
\* kinds, and the next generate_reading computes its targets from them.
C8_ClosedLoopDataFlow ==
    /\ pc \in {"decide", "apply"} => reading.tick = tick
    /\ pc = "apply" => equipment_state = registry
    /\ (pc = "generate" /\ command # NoValue) =>
          /\ DOMAIN registry = EQUIPMENT_FIELDS
          /\ \A e \in EQUIPMENT_FIELDS : registry[e] = command[e]
    /\ (pc = "decide" /\ command # NoValue) =>
          last_targets = _calculate_targets(current_weather, command)

\* C8 witness: the second tick of a cold_start run, generated after a
\* Command that changed the initial equipment.
C8_Witness ==
    /\ pc = "decide"
    /\ tick = 2
    /\ config_name = "cold_start"
    /\ command # NoValue
    /\ command # STARTING_CONFIGS["cold_start"].equipment
    /\ registry = command
    /\ last_targets = _calculate_targets(current_weather, command)

-----------------------------------------------------------------------------
(* The generator run on its own over weather transitions, the equipment    *)
(* left as initialize set it (management/commands/run_simulation.py)       *)

\* Ticks of one run: two transition periods and one tick more.
MaxWeatherTicks == 81

InitWeather ==
    /\ initialize
    /\ config_name \in DOMAIN STARTING_CONFIGS
    /\ RunnerIdle
    /\ equipment_state = NoValue
    /\ command = NoValue
    /\ pc = "generate"
    /\ heater_latched = FALSE

WeatherTick ==
    /\ tick < MaxWeatherTicks
    /\ \E nv \in NoiseVectors : generate_reading(nv)
    /\ UNCHANGED <<registry, equipment_state, command, pc, heater_latched,
                   runnerVars>>

NextWeather == WeatherTick

SpecWeather == InitWeather /\ [][NextWeather]_vars

\* C13: a weather transition out of a regime r yields a regime listed in
\* WEATHER_TRANSITIONS[r]; out of Rainy it yields Cloudy or Windy only.
C13_TransitionsFollowTable ==
    [][/\ current_weather' # current_weather =>
             current_weather' \in WEATHER_TRANSITIONS[current_weather]
       /\ (current_weather = "Rainy" /\ current_weather' # "Rainy") =>
             current_weather' \in {"Cloudy", "Windy"}]_vars

\* C13 witness: the transition at tick 40 of a run that began in Rainy.
C13_Witness ==
    /\ config_name = "mold_risk"
    /\ tick = TRANSITION_PERIOD
    /\ current_weather = "Windy"
    /\ reading.weather = "Windy"

\* C14: a generate_reading call changes the weather exactly when its
\* incremented tick is a multiple of TRANSITION_PERIOD, and the targets of
\* the call are those of the weather after the transition.
C14_TransitionExactlyOnPeriod ==
    [][tick' = tick + 1 =>
         /\ (current_weather' # current_weather) <=>
                (tick' % TRANSITION_PERIOD = 0)
         /\ last_targets' = _calculate_targets(current_weather', registry)]_vars

\* C14 witness: the tick after the first transition of an 'optimal' run.
C14_Witness ==
    /\ config_name = "optimal"
    /\ tick = TRANSITION_PERIOD + 1
    /\ current_weather = "Sunny"
    /\ last_targets = _calculate_targets("Sunny", registry)

\* C40: the weather is always one of the five regimes, every transition
\* event (a tick that is a multiple of TRANSITION_PERIOD) changes it, and
\* between transition events it stays the same.
C40_RegimeChangesAtEveryTransition ==
    /\ [](current_weather \in WEATHERS)
    /\ [][tick' = tick + 1 =>
            IF tick' % TRANSITION_PERIOD = 0
            THEN current_weather' # current_weather
                   /\ current_weather' \in WEATHERS
            ELSE current_weather' = current_weather]_vars

\* C40 witness: the second transition event of a run that began in Sunny
\* brings the regime back to Sunny, so it changed at both events.
C40_Witness ==
    /\ config_name = "hot_humid"
    /\ tick = 2 * TRANSITION_PERIOD
    /\ current_weather = "Sunny"
    /\ reading.weather = "Sunny"

\* The period the start-up banner of run_simulation announces.
ANNOUNCED_PERIOD == 10

\* C21: in a run of run_simulation the weather changes every 10 ticks.
\* (Stated as claimed; generate_reading changes it every 40.)
C21_WeatherChangesEveryTenTicks ==
    [][tick' = tick + 1 =>
         ((current_weather' # current_weather) <=>
             (tick' % ANNOUNCED_PERIOD = 0))]_vars

-----------------------------------------------------------------------------
(* The scenarios: a generator initialized with a named configuration and   *)
(* decide called on the reading it emitted last, the equipment still as    *)
(* initialize set it                                                       *)

\* Readings generated after the first one before decide is called.
MaxScenarioTicks == 8

InitScenario ==
    /\ initialize
    /\ config_name \in DOMAIN STARTING_CONFIGS
    /\ RunnerIdle
    /\ equipment_state = NoValue
    /\ command = NoValue
    /\ pc = "reading"
    /\ heater_latched = FALSE

ScenarioTick ==
    /\ pc = "reading"
    /\ tick < MaxScenarioTicks
    /\ \E nv \in NoiseVectors : generate_reading(nv)
    /\ UNCHANGED <<registry, equipment_state, command, pc, heater_latched,
                   runnerVars>>

ScenarioDecide ==
    /\ pc = "reading"
    /\ equipment_state' = registry
    /\ command' = Decide(reading, registry)
    /\ registry' = RegistryAfterDecide(reading, registry)
    /\ pc' = "decided"
    /\ UNCHANGED <<reading, heater_latched, genVars, runnerVars>>

NextScenario ==
    \/ ScenarioTick
    \/ ScenarioDecide

SpecScenario == InitScenario /\ [][NextScenario]_vars

\* C17: from cold_start (heater ON in the equipment), decide on a reading
\* with a temperature below TEMP_MIN returns heater ON.
C17_ColdStartKeepsHeater ==
    (/\ pc = "decided"
     /\ config_name = "cold_start"
     /\ reading.temperature < TEMP_MIN)
    => command.heater

\* C17 witness: decide on the cold_start reading of exactly 15 degrees.
C17_Witness ==
    /\ pc = "decided"
    /\ config_name = "cold_start"
    /\ tick = 0
    /\ reading.temperature = 1500
    /\ equipment_state.heater
    /\ command.heater

\* C18: from sensor_glitch, decide on the initial reading returns heater ON,
\* irrigation ON and co2_injector OFF.
C18_SensorGlitchCommand ==
    (/\ pc = "decided"
     /\ config_name = "sensor_glitch"
     /\ tick = 0)
    => /\ command.heater
       /\ command.irrigation
       /\ ~command.co2_injector

\* C18 witness: decide on a sensor_glitch reading (all zero, CO2 about
\* 2000) with the injector ON, irrigation and heater OFF in the equipment.
C18_Witness ==
    /\ pc = "decided"
    /\ config_name = "sensor_glitch"
    /\ tick = 0
    /\ reading.temperature = 0
    /\ reading.soil_moisture = 0
    /\ reading.co2_concentration >= 200000
    /\ equipment_state.co2_injector
    /\ ~equipment_state.irrigation
    /\ command.irrigation
    /\ ~command.co2_injector

-----------------------------------------------------------------------------
(* The two functions that apply a Command, called twice in a row on any    *)
(* table (simulation_runner.py:22-27, generate_training_data.py:18-24)     *)

\* The EquipmentState tables: any subset of the kinds, each ON or OFF.
ApplyTables ==
    UNION {[kinds -> BOOLEAN] : kinds \in SUBSET EQUIPMENT_FIELDS}

InitApply ==
    /\ GeneratorIdle
    /\ RunnerIdle
    /\ registry \in ApplyTables
    /\ reading = NoValue
    /\ equipment_state = NoValue
    /\ command = NoValue
    /\ pc = "apply"
    /\ heater_latched = FALSE

\* apply_equipment_state(cmd_dict) on a classifier's full answer or on the
\* table itself (the warm-up's equipment_now).
ApplyRunner ==
    /\ pc = "apply"
    /\ \E cmd \in AllRegistries \cup {registry} :
          /\ command' = cmd
          /\ registry' = apply_equipment_state(registry, cmd)
    /\ pc' = "applied_runner"
    /\ UNCHANGED <<reading, equipment_state, heater_latched, genVars, runnerVars>>

\* apply_command_to_equipment_state(command) on a GreenhouseCommand.
ApplyTraining ==
    /\ pc = "apply"
    /\ \E cmd \in AllRegistries :
          /\ command' = cmd
          /\ registry' = apply_command_to_equipment_state(registry, cmd)
    /\ pc' = "applied_training"
    /\ UNCHANGED <<reading, equipment_state, heater_latched, genVars, runnerVars>>

\* The same Command applied once more; equipment_state keeps the table as
\* the first application left it.
ApplyAgain ==
    /\ pc \in {"applied_runner", "applied_training"}
    /\ equipment_state' = registry
    /\ registry' = IF pc = "applied_runner"
                   THEN apply_equipment_state(registry, command)
                   ELSE apply_command_to_equipment_state(registry, command)
    /\ pc' = IF pc = "applied_runner" THEN "reapplied_runner"
             ELSE "reapplied_training"
    /\ UNCHANGED <<reading, command, heater_latched, genVars, runnerVars>>

NextApply ==
    \/ ApplyRunner
    \/ ApplyTraining
    \/ ApplyAgain

SpecApply == InitApply /\ [][NextApply]_vars

\* C12: applying a Command a second time leaves the registry as the first
\* application left it, for apply_equipment_state and for
\* apply_command_to_equipment_state, on every table and every Command.
C12_ApplyIdempotent ==
    pc \in {"reapplied_runner", "reapplied_training"} =>
        registry = equipment_state

\* C12 witness: a mixed Command applied twice by each function.
C12_Witness ==
    /\ pc = "reapplied_runner"
    /\ DOMAIN command = EQUIPMENT_FIELDS
    /\ command.heater /\ ~command.ventilation /\ command.light_blinds
    /\ registry = command
    /\ equipment_state = command

-----------------------------------------------------------------------------
(* SimulationRunner (services/simulation_runner.py): the one RUNNER of     *)
(* views_simulation.py, its start() and stop() called by request threads,  *)
(* and the loop threads start() creates.  The predictor and the classifier *)
(* are black boxes, so a reading is held by the tick that produced it.     *)

\* ml/rf_command_model.py EQUIPMENT: the order apply_equipment_state writes.
EQUIPMENT ==
    <<"heater", "ventilation", "irrigation", "co2_injector", "lights",
      "dehumidifier", "light_blinds">>

\* deque(maxlen=10) and the warm-up test len(self.last10) < 10.
WINDOW == 10

\* The predictor runs when self.tick % 10 == 0.
PREDICT_PERIOD == 10

\* Loop threads that may be created.
MaxLoops == 2

\* Request threads calling the views.
MaxRequests == 1

\* start()/stop() calls made in all.
MaxCalls == 3

\* Value of self.tick up to which a loop begins a tick.
MaxRunnerTick == 10

\* Ticks that raise.
MaxFailures == 1

LoopIds == 1..MaxLoops
RequestIds == 1..MaxRequests

\* Configuration names the start view is called with.
RunnerConfigs == {"optimal", "cold_start"}

\* Commands the classifier answers with (it is a black box): nothing and
\* everything.
RunnerCommands ==
    {Equipment(FALSE, FALSE, FALSE, FALSE, FALSE, FALSE, FALSE),
     Equipment(TRUE, TRUE, TRUE, TRUE, TRUE, TRUE, TRUE)}

\* Positions of a loop thread inside _one_tick.
TickPcs == {"generate", "decide", "apply"}

get_equipment_state_dict(table) == table

\* deque.append on a deque of maxlen WINDOW.
DequeAppend(q, x) ==
    IF Len(q) < WINDOW THEN Append(q, x) ELSE Append(Tail(q), x)

\* The rows after the first k iterations of apply_equipment_state.
PartialApply(table, new_state, k) ==
    LET written == {EQUIPMENT[i] : i \in 1..k}
    IN [e \in (DOMAIN table) \cup written |->
          IF e \in written
          THEN (IF e \in DOMAIN new_state THEN new_state[e] ELSE FALSE)
          ELSE table[e]]

\* @transaction.atomic on _one_tick: the rows written in the tick are
\* committed when it returns and rolled back when it raises.
transaction_atomic(before, after, raised) ==
    IF raised THEN before ELSE after

\* The predictor runs at this tick (simulation_runner.py:130).
PredictorRuns == runner_tick % PREDICT_PERIOD = 0 \/ cached_pred = NoValue

\* A loop thread's position and the locals of its tick: the Command being
\* built, the registry when the tick began, and whether the tick took the
\* warm-up branch (line 124).
UnbornLoop ==
    [pc |-> "unborn", cmd |-> NoValue, tick_start_registry |-> NoValue,
     warm |-> FALSE]
IdleRequest == [pc |-> "idle", config |-> NoName]

InitRunner ==
    /\ registry = EmptyTable
    /\ reading = NoValue
    /\ equipment_state = NoValue
    /\ command = NoValue
    /\ pc = "runner"
    /\ heater_latched = FALSE
    /\ GeneratorIdle
    /\ is_running = FALSE
    /\ stop_event = FALSE
    /\ thread = 0
    /\ runner_tick = 0
    /\ last10 = <<>>
    /\ cached_pred = NoValue
    /\ loops = [l \in LoopIds |-> UnbornLoop]
    /\ requests = [r \in RequestIds |-> IdleRequest]
    /\ calls = 0
    /\ failures = 0
    /\ runs = 0

runnerFrame == <<reading, equipment_state, pc, heater_latched, current_weather,
                 current, last_targets>>


\* start(), lines 57-58: the is_running test; a running runner returns.
StartCheck(r) ==
    /\ requests[r].pc = "idle"
    /\ calls < MaxCalls
    /\ calls' = calls + 1
    /\ \E cfg \in RunnerConfigs :
          requests' = [requests EXCEPT ![r] =
              IF is_running THEN IdleRequest
              ELSE [pc |-> "start_reset", config |-> cfg]]
    /\ UNCHANGED <<loopVars, genVars, is_running, stop_event, thread,
                   runner_tick, last10, cached_pred, loops, failures, runs>>

\* start(), lines 60-64: tick, deque and stop event are reset.
StartReset(r) ==
    /\ requests[r].pc = "start_reset"
    /\ runner_tick' = 0
    /\ last10' = <<>>
    /\ stop_event' = FALSE
    /\ requests' = [requests EXCEPT ![r].pc = "start_initialize"]
    /\ UNCHANGED <<loopVars, genVars, is_running, thread, cached_pred, loops,
                   calls, failures, runs>>

\* start(), lines 66-72: a new generator is initialized (equipment rows of
\* the configuration, first reading) and the deque primed with that reading.
StartInitialize(r) ==
    /\ requests[r].pc = "start_initialize"
    /\ config_name' = requests[r].config
    /\ tick' = 0
    /\ registry' = _initialize_equipment(registry,
                       STARTING_CONFIGS[config_name'].equipment)
    /\ last10' = DequeAppend(last10, tick')
    /\ runs' = runs + 1
    /\ requests' = [requests EXCEPT ![r].pc = "start_thread"]
    /\ UNCHANGED <<command, runnerFrame, is_running, stop_event, thread,
                   runner_tick, cached_pred, loops, calls, failures>>

\* start(), lines 74-76: the loop thread is created and started.
StartThread(r) ==
    /\ requests[r].pc = "start_thread"
    /\ \E l \in LoopIds :
          /\ loops[l].pc = "unborn"
          /\ \A k \in LoopIds : k < l => loops[k].pc # "unborn"
          /\ thread' = l
          /\ loops' = [loops EXCEPT ![l].pc = "check"]
    /\ is_running' = TRUE
    /\ requests' = [requests EXCEPT ![r] = IdleRequest]
    /\ UNCHANGED <<loopVars, genVars, stop_event, runner_tick, last10,
                   cached_pred, calls, failures, runs>>

\* stop(), lines 79-81: nothing when not running, else the event is set.
StopCheck(r) ==
    /\ requests[r].pc = "idle"
    /\ calls < MaxCalls
    /\ calls' = calls + 1
    /\ IF is_running
       THEN /\ stop_event' = TRUE
            /\ requests' = [requests EXCEPT ![r].pc = "stop_join"]
       ELSE UNCHANGED <<stop_event, requests>>
    /\ UNCHANGED <<loopVars, genVars, is_running, thread, runner_tick, last10,
                   cached_pred, loops, failures, runs>>

\* stop(), lines 82-83: join(timeout=5) returns when the thread has ended or
\* when the five seconds are over.
StopJoin(r) ==
    /\ requests[r].pc = "stop_join"
    /\ \E timed_out \in BOOLEAN :
          \/ timed_out
          \/ thread = 0
          \/ loops[thread].pc = "dead"
    /\ requests' = [requests EXCEPT ![r].pc = "stop_finish"]
    /\ UNCHANGED <<loopVars, genVars, is_running, stop_event, thread,
                   runner_tick, last10, cached_pred, loops, calls, failures,
                   runs>>

\* stop(), line 84.
StopFinish(r) ==
    /\ requests[r].pc = "stop_finish"
    /\ is_running' = FALSE
    /\ requests' = [requests EXCEPT ![r] = IdleRequest]
    /\ UNCHANGED <<loopVars, genVars, stop_event, thread, runner_tick, last10,
                   cached_pred, loops, calls, failures, runs>>

\* Mutant of LoopCheck: the loop test does not read the stop event.
LoopCheckIgnoringStop(l) ==
    /\ loops[l].pc = "check"
    /\ runner_tick < MaxRunnerTick
    /\ loops' = [loops EXCEPT ![l].pc = "generate",
                              ![l].tick_start_registry = registry]
    /\ UNCHANGED <<loopVars, genVars, is_running, stop_event, thread,
                   runner_tick, last10, cached_pred, requests, calls, failures,
                   runs>>

\* _run_loop, line 96: the loop test; a set event leaves the while loop,
\* else _one_tick is entered and its transaction begins.
LoopCheck(l) ==
    /\ loops[l].pc = "check"
    /\ IF stop_event
       THEN loops' = [loops EXCEPT ![l].pc = "exit"]
       ELSE /\ runner_tick < MaxRunnerTick
            /\ loops' = [loops EXCEPT ![l].pc = "generate",
                                      ![l].tick_start_registry = registry]
    /\ UNCHANGED <<loopVars, genVars, is_running, stop_event, thread,
                   runner_tick, last10, cached_pred, requests, calls, failures,
                   runs>>

\* _run_loop, line 106: past the while loop the thread clears is_running
\* and ends.
LoopExit(l) ==
    /\ loops[l].pc = "exit"
    /\ is_running' = FALSE
    /\ loops' = [loops EXCEPT ![l].pc = "dead"]
    /\ UNCHANGED <<loopVars, genVars, stop_event, thread, runner_tick, last10,
                   cached_pred, requests, calls, failures, runs>>

\* _one_tick, lines 113-117: reading generated, tick counted, deque pushed.
LoopGenerate(l) ==
    /\ loops[l].pc = "generate"
    /\ tick' = tick + 1
    /\ runner_tick' = runner_tick + 1
    /\ last10' = DequeAppend(last10, tick')
    /\ loops' = [loops EXCEPT ![l].pc = "decide"]
    /\ UNCHANGED <<registry, command, runnerFrame, config_name, is_running,
                   stop_event, thread, cached_pred, requests, calls, failures,
                   runs>>

\* _one_tick, lines 121-145: the Command of the tick: the equipment as it is
\* during warm-up, else the classifier's answer to the cached forecast.
LoopDecide(l) ==
    /\ loops[l].pc = "decide"
    /\ IF Len(last10) < WINDOW
       THEN /\ loops' = [loops EXCEPT ![l].pc = "apply",
                             ![l].cmd = get_equipment_state_dict(registry),
                             ![l].warm = TRUE]
            /\ UNCHANGED cached_pred
       ELSE /\ cached_pred' = IF PredictorRuns
                              THEN [run |-> runs, tick |-> runner_tick]
                              ELSE cached_pred
            /\ \E cmd \in RunnerCommands :
                  loops' = [loops EXCEPT ![l].pc = "apply", ![l].cmd = cmd,
                                         ![l].warm = FALSE]
    /\ UNCHANGED <<loopVars, genVars, is_running, stop_event, thread,
                   runner_tick, last10, requests, calls, failures, runs>>

\* _one_tick, lines 148-158: the Command row and the 7 equipment rows are
\* written, _one_tick returns and its transaction commits.
LoopApply(l) ==
    /\ loops[l].pc = "apply"
    /\ command' = transaction_atomic(command, loops[l].cmd, FALSE)
    /\ registry' = transaction_atomic(registry,
                       apply_equipment_state(registry, loops[l].cmd), FALSE)
    /\ loops' = [loops EXCEPT ![l].pc = "sleep", ![l].cmd = NoValue,
                              ![l].tick_start_registry = NoValue,
                              ![l].warm = FALSE]
    /\ UNCHANGED <<runnerFrame, genVars, is_running, stop_event, thread,
                   runner_tick, last10, cached_pred, requests, calls, failures,
                   runs>>

\* _one_tick raises (lines 108-158) and _run_loop catches (lines 97-99): the
\* generator, the predictor, the classifier or a write fails; k equipment
\* rows were written before and the transaction is rolled back.
LoopRaise(l) ==
    /\ loops[l].pc \in TickPcs
    /\ failures < MaxFailures
    /\ failures' = failures + 1
    /\ \E k \in 0..Len(EQUIPMENT) :
          /\ k > 0 => loops[l].pc = "apply"
          /\ registry' = transaction_atomic(registry,
                 PartialApply(registry, loops[l].cmd, k), TRUE)
    /\ \E predicted \in BOOLEAN :
          /\ predicted =>
                (loops[l].pc = "decide" /\ Len(last10) >= WINDOW /\ PredictorRuns)
          /\ cached_pred' = IF predicted
                            THEN [run |-> runs, tick |-> runner_tick]
                            ELSE cached_pred
    /\ loops' = [loops EXCEPT ![l].pc = "caught", ![l].cmd = NoValue,
                              ![l].warm = FALSE]
    /\ UNCHANGED <<command, runnerFrame, genVars, is_running, stop_event,
                   thread, runner_tick, last10, requests, calls, runs>>

\* _run_loop, lines 99-101: the exception is printed.
LoopCaught(l) ==
    /\ loops[l].pc = "caught"
    /\ loops' = [loops EXCEPT ![l].pc = "sleep",
                              ![l].tick_start_registry = NoValue]
    /\ UNCHANGED <<loopVars, genVars, is_running, stop_event, thread,
                   runner_tick, last10, cached_pred, requests, calls, failures,
                   runs>>

\* _run_loop, lines 103-104: time.sleep(self.interval).
LoopSleep(l) ==
    /\ loops[l].pc = "sleep"
    /\ loops' = [loops EXCEPT ![l].pc = "check"]
    /\ UNCHANGED <<loopVars, genVars, is_running, stop_event, thread,
                   runner_tick, last10, cached_pred, requests, calls, failures,
                   runs>>

RequestStep(r) ==
    \/ StartCheck(r)
    \/ StartReset(r)
    \/ StartInitialize(r)
    \/ StartThread(r)
    \/ StopCheck(r)
    \/ StopJoin(r)
    \/ StopFinish(r)

LoopStep(l) ==
    \/ LoopCheck(l)
    \/ LoopGenerate(l)
    \/ LoopDecide(l)
    \/ LoopApply(l)
    \/ LoopRaise(l)
    \/ LoopCaught(l)
    \/ LoopSleep(l)
    \/ LoopExit(l)

NextRunner ==
    \/ \E r \in RequestIds : RequestStep(r)
    \/ \E l \in LoopIds : LoopStep(l)

SpecRunner == InitRunner /\ [][NextRunner]_vars

\* A step a loop thread takes on its own once it is scheduled (raising is
\* no such step).
LoopProgress(l) ==
    \/ LoopCheck(l)
    \/ LoopGenerate(l)
    \/ LoopDecide(l)
    \/ LoopApply(l)
    \/ LoopCaught(l)
    \/ LoopSleep(l)
    \/ LoopExit(l)

\* The runner with its loop threads scheduled again and again; the request
\* threads are under no such obligation.
SpecRunnerFair ==
    SpecRunner /\ \A l \in LoopIds : WF_vars(LoopProgress(l))

-----------------------------------------------------------------------------
(* Claims about the runner (SpecRunner)                                    *)

\* C4: at any moment at most one loop thread executes ticks and at most one
\* _one_tick is in progress.
C4_SingleLoopThread ==
    /\ Cardinality({l \in LoopIds : loops[l].pc \in TickPcs}) <= 1
    /\ Cardinality({l \in LoopIds : loops[l].pc \notin {"unborn", "dead"}}) <= 1

\* C6: when a tick raises, the exception is caught in _run_loop, the registry
\* holds exactly the states it held before that tick, and the loop goes on.
C6_FailedTickKeepsRegistry ==
    \A l \in LoopIds :
        loops[l].pc = "caught" => registry = loops[l].tick_start_registry


\* C15: while the stop signal stays set (no start() clears it), a loop thread
\* that is outside a tick begins none, a tick in progress either applies
\* all 7 values of its Command or none, and in the end every loop thread
\* has terminated and is_running is False.
C15_StopBetweenTicks ==
    /\ [][\A l \in LoopIds :
             (stop_event /\ loops[l].pc \notin TickPcs) =>
                 loops'[l].pc \notin TickPcs]_vars
    /\ [][\A l \in LoopIds :
             (loops'[l] # loops[l] /\ registry' # registry) =>
                 /\ loops[l].pc = "apply"
                 /\ loops'[l].pc = "sleep"
                 /\ \A e \in EQUIPMENT_FIELDS :
                       registry'[e] = is_on(loops[l].cmd, e)]_vars
    /\ [](stop_event =>
             <>(\/ ~stop_event
                \/ /\ \A l \in LoopIds : loops[l].pc \in {"unborn", "dead"}
                   /\ ~is_running))

\* C15 witness: stop() waiting in join while the loop thread is inside a
\* tick, about to apply a Command that changes the registry.
C15_Witness ==
    /\ stop_event
    /\ \E r \in RequestIds : requests[r].pc = "stop_join"
    /\ \E l \in LoopIds :
          /\ loops[l].pc = "apply"
          /\ loops[l].cmd # registry

\* C33: a tick that finds fewer than WINDOW readings in the deque takes the
\* registry as its Command without running the predictor or the classifier,
\* and when that tick applies its Command the Command issued is the registry
\* as it is and the registry is left the same.
C33_WarmUpKeepsRegistry ==
    /\ [][\A l \in LoopIds :
             (loops[l].pc = "decide" /\ loops'[l].pc = "apply"
                 /\ Len(last10) < WINDOW)
                => /\ loops'[l].cmd = registry
                   /\ cached_pred' = cached_pred]_vars
    /\ [][\A l \in LoopIds :
             (loops[l].pc = "apply" /\ loops[l].warm
                 /\ loops'[l].pc = "sleep")
                => /\ command' = registry
                   /\ registry' = registry]_vars

\* C34: the predictor is called every PREDICT_PERIOD ticks and only then: a
\* tick's decision that runs it has a tick number that is a multiple of
\* PREDICT_PERIOD, and a decision past warm-up on such a tick runs it.
C34_PredictorOnlyOnPeriod ==
    [][\A l \in LoopIds :
          (loops[l].pc = "decide" /\ loops'[l].pc = "apply")
             => /\ (cached_pred' # cached_pred)
                      => runner_tick % PREDICT_PERIOD = 0
                /\ (~loops'[l].warm /\ runner_tick % PREDICT_PERIOD = 0)
                      => cached_pred' = [run |-> runs, tick |-> runner_tick]]_vars

\* C35: the forecast a tick past warm-up feeds to the classifier was computed
\* after the most recent start().
C35_ForecastOfCurrentRun ==
    [][\A l \in LoopIds :
          (loops[l].pc = "decide" /\ loops'[l].pc = "apply"
              /\ ~loops'[l].warm)
             => cached_pred'.run = runs]_vars

\* C36: outside the bodies of start() and stop() is_running is True exactly
\* when a loop thread is alive that will execute further ticks (it has not
\* left its while loop and no stop is signalled).
C36_IsRunningAgreesWithLoop ==
    (\A r \in RequestIds : requests[r].pc = "idle")
        => (is_running <=>
               (~stop_event /\ \E l \in LoopIds :
                    loops[l].pc \notin {"unborn", "exit", "dead"}))

=============================================================================
